---- MODULE Spec2Model ----
(***************************************************************************)
(* smp-tool: one run of main().  A command is chosen on the command line,  *)
(* one request/response exchange is made per request on the one transport, *)
(* and the image flash command drives the chunked upload loop.             *)
(* The device and the transport are the environment: they choose the       *)
(* response payload, the response sequence number, and transport errors.   *)
(***************************************************************************)
EXTENDS Integers, Sequences, FiniteSets

\* ---------------------------------------------------------------- bounds
MaxLen == 3
MaxChunk == 2
MaxRequests == 3
\* the device may report an offset past the end of the image
MaxOff == MaxLen + 1
\* width of usize, scaled down; offsets, lengths and chunk sizes are usize
UsizeBits == 4
UsizeMax == 2^UsizeBits - 1

\* ------------------------------------------------------------- constants
\* the sequence number every caller in main passes to the request builders
Seq42 == 42
\* command id of save_setting
SaveCommandId == 3

\* Option<T>
None == [some |-> FALSE]
Some(x) == [some |-> TRUE, v |-> x]

SeqNums == {Seq42, Seq42 + 1}
ReturnCodes == {-2, 0, 5}
Names == {"foo"}

SettingCmds == {"SettingRead", "SettingWriteString", "SettingWriteInt", "SettingSave"}
\* the single-exchange commands of the os, shell and application groups
OtherCmds == {"OsEcho", "OsReset", "ShellExec", "AppInfo"}
Commands == {"Flash"} \cup SettingCmds \cup OtherCmds

VARIABLES
    cmd,          \* cli.command
    firmware_len, \* firmware.len()
    chunk_size,   \* Flash { chunk_size }
    slot,         \* Flash { slot }
    upgrade,      \* Flash { upgrade }
    pc,           \* position of main: "start", "loop", "await", "done"
    offset,       \* let mut offset
    updater,      \* ImageWriter
    verified,     \* let mut verified
    req_frame,    \* the request frame of the current exchange
    resp_frame,   \* the response frame the last exchange handed back
    wire,         \* ids of the requests outstanding on the transport
    sent,         \* payloads of the requests sent, in order
    answered,     \* the exchanges completed, in order: request id and outcome
    out,          \* lines printed to stdout / stderr
    ret,          \* what main returns
    sawFlag,      \* some successful chunk response carried a hash-match flag
    sawFalse      \* some successful chunk response carried match = false

vars == <<cmd, firmware_len, chunk_size, slot, upgrade, pc, offset, updater,
          verified, req_frame, resp_frame, wire, sent, answered, out, ret,
          sawFlag, sawFalse>>

Min(a, b) == IF a < b THEN a ELSE b

\* ------------------------------------------------------------ envelopes
\* SmpFrame::new(op, sequence, group, command_id, payload)
SmpFrame(op, sequence, group, command_id, payload) ==
    [op |-> op, sequence |-> sequence, group |-> group,
     command_id |-> command_id, payload |-> payload]

\* setting_management.rs request builders
read_setting(sequence, name) ==
    SmpFrame("ReadRequest", sequence, "SettingManagement", 0, [name |-> name])

write_setting(sequence, name, val) ==
    SmpFrame("WriteRequest", sequence, "SettingManagement", 0,
             [name |-> name, val |-> val])

\* mutant: save is sent with command id 0, like a write
save_setting_WriteId(sequence) ==
    SmpFrame("WriteRequest", sequence, "SettingManagement", 0, <<>>)

save_setting(sequence) ==
    SmpFrame("WriteRequest", sequence, "SettingManagement", SaveCommandId, <<>>)

\* ------------------------------------------------------- ImageWriter
\* ImageWriter::new(slot, len, hash, upgrade): offset starts at 0
ImageWriter_new(image, len, hash, upgrade_) ==
    [image |-> image, offset |-> 0, len |-> len, hash |-> hash, upgrade |-> upgrade_]

\* ImageWriter::write_chunk(chunk): the whole-image fields go into the request
\* only while the writer's offset is 0
write_chunk(w, chunk, sequence) ==
    SmpFrame("WriteRequest", sequence, "Application", "WriteChunk",
             [off  |-> w.offset,
              data |-> chunk,
              meta |-> IF w.offset = 0
                       THEN Some([image |-> w.image, len |-> w.len,
                                  sha |-> w.hash, upgrade |-> w.upgrade])
                       ELSE None])


\* ------------------------------------------------ untagged result decode
\* A response payload is a CBOR map: a function from some of the keys to
\* typed values.
VBytes == [t |-> "bytes"]
VInt(n) == [t |-> "int", v |-> n]
Keys == {"val", "rc"}
Values == {VBytes, VInt(-2), VInt(0)}
Payloads == UNION {[K -> Values] : K \in SUBSET Keys}

Malformed == [t |-> "Malformed"]

\* A struct variant matches a map when each of its fields is in the map with
\* a value of the field's type; keys of the map that are no field of the
\* variant are ignored (no deny_unknown_fields).
MatchesVariant(p, fields) ==
    \A f \in DOMAIN fields : f \in DOMAIN p /\ p[f].t = fields[f]

\* Ok { val: Vec<u8> } of ReadSettingResult
ReadOkFields == [val |-> "bytes"]
\* Ok {} of WriteSettingResult and SaveSettingResult: no fields
EmptyOkFields == <<>>
\* Err { rc: i32 }
ErrFields == [rc |-> "int"]

\* #[serde(untagged)]: the variants are tried in declaration order and the
\* first that matches is the result; none matching is a decode error.
ReadSettingResult(p) ==
    IF MatchesVariant(p, ReadOkFields) THEN [t |-> "Ok", val |-> p["val"]]
    ELSE IF MatchesVariant(p, ErrFields) THEN [t |-> "Err", rc |-> p["rc"].v]
    ELSE Malformed

WriteSettingResult(p) ==
    IF MatchesVariant(p, EmptyOkFields) THEN [t |-> "Ok"]
    ELSE IF MatchesVariant(p, ErrFields) THEN [t |-> "Err", rc |-> p["rc"].v]
    ELSE Malformed

SaveSettingResult(p) ==
    IF MatchesVariant(p, EmptyOkFields) THEN [t |-> "Ok"]
    ELSE IF MatchesVariant(p, ErrFields) THEN [t |-> "Err", rc |-> p["rc"].v]
    ELSE Malformed

\* the result type each setting command asks transceive_cbor to decode into
DecodeFor(c, p) ==
    CASE c = "SettingRead" -> ReadSettingResult(p)
      [] c \in {"SettingWriteString", "SettingWriteInt"} -> WriteSettingResult(p)
      [] c = "SettingSave" -> SaveSettingResult(p)

\* ---------------------------------------------------------------- main
Running == [t |-> "Running"]
RetOk == [t |-> "Ok"]

Init ==
    /\ cmd \in Commands
    /\ firmware_len \in 0..MaxLen
    /\ chunk_size \in (0..MaxChunk) \cup {UsizeMax}
    /\ slot \in {None, Some(1)}
    /\ upgrade \in BOOLEAN
    /\ (cmd # "Flash" => /\ firmware_len = 0 /\ chunk_size = 0
                         /\ slot = None /\ upgrade = FALSE)
    /\ pc = "start"
    /\ offset = 0
    /\ updater = None
    /\ verified = None
    /\ req_frame = None
    /\ resp_frame = None
    /\ wire = <<>>
    /\ sent = <<>>
    /\ answered = <<>>
    /\ out = <<>>
    /\ ret = Running
    /\ sawFlag = FALSE
    /\ sawFalse = FALSE

\* mutant: the caller goes on without awaiting the exchange
PcAfterSend_NoAwait == "loop"

\* transceive_cbor, first half: the frame is serialized and delivered; the
\* caller is suspended until the exchange completes
PcAfterSend == "await"

Transmit(frame) ==
    /\ req_frame' = Some(frame)
    /\ sent' = Append(sent, frame.payload)
    /\ wire' = Append(wire, Len(sent) + 1)
    /\ pc' = PcAfterSend

\* transceive_cbor, second half: the exchange of request id completes
\* with a response frame or with an error
Complete(id, outcome) ==
    /\ wire' = SelectSeq(wire, LAMBDA x : x # id)
    /\ answered' = Append(answered, [id |-> id, outcome |-> outcome])

\* std::fs::read, the sha256 of the image, ImageWriter::new, verified, offset
FlashStart ==
    /\ pc = "start" /\ cmd = "Flash"
    /\ updater' = ImageWriter_new(slot, firmware_len, Some("sha256"), upgrade)
    /\ verified' = None
    /\ offset' = 0
    /\ out' = Append(out, [msg |-> "Image sha256"])
    /\ pc' = "loop"
    /\ UNCHANGED <<cmd, firmware_len, chunk_size, slot, upgrade, req_frame,
                   resp_frame, wire, sent, answered, ret, sawFlag, sawFalse>>

\* std::fs::read(&update_file)? fails
FlashReadError ==
    /\ pc = "start" /\ cmd = "Flash"
    /\ pc' = "done"
    /\ ret' = [t |-> "Err", kind |-> "Io"]
    /\ UNCHANGED <<cmd, firmware_len, chunk_size, slot, upgrade, offset, updater,
                   verified, req_frame, resp_frame, wire, sent, answered, out,
                   sawFlag, sawFalse>>

\* mutant: the loop stops one byte early
LoopCond_OffByOne == offset + 1 < firmware_len

\* while offset < firmware.len()
LoopCond == offset < firmware_len

\* mutant: every chunk is one byte, whatever chunk_size is
Chunk_OneByte == [from |-> offset, to |-> Min(firmware_len, offset + 1)]

\* &firmware[offset..min(firmware.len(), offset + chunk_size)]
Chunk == [from |-> offset, to |-> Min(firmware_len, offset + chunk_size)]

\* offset + chunk_size in usize: a debug build panics when the sum overflows;
\* a release build wraps it, the end of the range is then below its start and
\* the slice panics.  Either way the range expression panics.
SlicePanics ==
    \/ offset + chunk_size > UsizeMax
    \/ Min(firmware_len, (offset + chunk_size) % (UsizeMax + 1)) < offset

\* loop body, when the range expression panics: main unwinds
FlashSlicePanic ==
    /\ pc = "loop" /\ cmd = "Flash"
    /\ LoopCond
    /\ SlicePanics
    /\ out' = Append(out, [msg |-> "writing", n |-> offset])
    /\ ret' = [t |-> "Panic"]
    /\ pc' = "done"
    /\ UNCHANGED <<cmd, firmware_len, chunk_size, slot, upgrade, offset, updater,
                   verified, req_frame, resp_frame, wire, sent, answered,
                   sawFlag, sawFalse>>

\* loop body up to the await: print progress, slice, build and send the request
FlashSend ==
    /\ pc = "loop" /\ cmd = "Flash"
    /\ LoopCond
    /\ ~SlicePanics
    /\ Len(sent) < MaxRequests
    /\ \E sequence \in SeqNums : Transmit(write_chunk(updater, Chunk, sequence))
    /\ out' = Append(out, [msg |-> "writing", n |-> offset])
    /\ UNCHANGED <<cmd, firmware_len, chunk_size, slot, upgrade, offset, updater,
                   verified, resp_frame, answered, ret, sawFlag, sawFalse>>

\* mutant: the client advances by the length of the chunk it sent
OkOffset_Cumulative(payload) == offset + (Chunk.to - Chunk.from)

\* offset = payload.off as usize
OkOffset(payload) == payload.off

\* mutant: the writer's offset is not brought up to date
OkUpdater_Stale(payload) == updater

\* mutant: the writer advances by the chunk length while the loop follows
\* the device
OkUpdater_Cumulative(payload) ==
    [updater EXCEPT !.offset = updater.offset + (Chunk.to - Chunk.from)]

\* updater.offset = offset
OkUpdater(payload) == [updater EXCEPT !.offset = OkOffset(payload)]
\* verified = payload.match_
OkVerified(payload) == payload.match_

\* WriteImageChunkResult::Ok(payload)
ChunkOk(id, payload, rseq) ==
    /\ Complete(id, "response")
    /\ resp_frame' = Some([sequence |-> rseq, data |-> [t |-> "Ok", payload |-> payload]])
    /\ offset' = OkOffset(payload)
    /\ updater' = OkUpdater(payload)
    /\ verified' = OkVerified(payload)
    /\ sawFlag' = (sawFlag \/ payload.match_.some)
    /\ sawFalse' = (sawFalse \/ payload.match_ = Some(FALSE))
    /\ pc' = "loop"
    /\ UNCHANGED <<cmd, firmware_len, chunk_size, slot, upgrade, req_frame,
                   sent, out, ret>>

\* mutant: a device error is not terminal, the loop sends the chunk again
ChunkErr_Retry(id, err, rseq) ==
    /\ Complete(id, "response")
    /\ resp_frame' = Some([sequence |-> rseq, data |-> [t |-> "Err", err |-> err]])
    /\ pc' = "loop"
    /\ UNCHANGED <<cmd, firmware_len, chunk_size, slot, upgrade, offset, updater,
                   verified, req_frame, sent, out, ret, sawFlag, sawFalse>>

\* WriteImageChunkResult::Err(err): Err(format!("Err from MCU: {:?}", err))?
ChunkErr(id, err, rseq) ==
    /\ Complete(id, "response")
    /\ resp_frame' = Some([sequence |-> rseq, data |-> [t |-> "Err", err |-> err]])
    /\ ret' = [t |-> "Err", kind |-> "Mcu", err |-> err]
    /\ pc' = "done"
    /\ UNCHANGED <<cmd, firmware_len, chunk_size, slot, upgrade, offset, updater,
                   verified, req_frame, sent, out, sawFlag, sawFalse>>

\* the device answers an outstanding WriteChunk request
FlashRecv ==
    /\ pc = "await" /\ cmd = "Flash"
    /\ \E i \in 1..Len(wire), rseq \in SeqNums :
         \/ \E off \in 0..MaxOff, m \in {None, Some(TRUE), Some(FALSE)} :
              ChunkOk(wire[i], [off |-> off, match_ |-> m], rseq)
         \/ \E rc \in ReturnCodes : ChunkErr(wire[i], [rc |-> rc], rseq)

\* mutant: a failed exchange is swallowed and the flash loop goes on
ExchangeError_Retry(id, kind) ==
    /\ Complete(id, "error")
    /\ pc' = IF cmd = "Flash" THEN "loop" ELSE "done"
    /\ ret' = IF cmd = "Flash" THEN ret ELSE [t |-> "Err", kind |-> kind]
    /\ UNCHANGED <<cmd, firmware_len, chunk_size, slot, upgrade, offset, updater,
                   verified, req_frame, resp_frame, sent, out, sawFlag, sawFalse>>

\* transceive_cbor(...).await? returns Err: the error leaves main
ExchangeError(id, kind) ==
    /\ Complete(id, "error")
    /\ ret' = [t |-> "Err", kind |-> kind]
    /\ pc' = "done"
    /\ UNCHANGED <<cmd, firmware_len, chunk_size, slot, upgrade, offset, updater,
                   verified, req_frame, resp_frame, sent, out, sawFlag, sawFalse>>

TransportErrors == {"Timeout", "TransportFailure", "MalformedFrame"}

RecvError ==
    /\ pc = "await"
    /\ \E i \in 1..Len(wire), kind \in TransportErrors : ExchangeError(wire[i], kind)

\* println!("sent all bytes: {}", offset) and the verification report
VerificationReport ==
    IF verified.some
    THEN IF verified.v THEN <<[msg |-> "Image verified"]>>
         ELSE <<[msg |-> "Image verification failed!"]>>
    ELSE <<>>

\* mutant: an upload that was not verified is turned into a failure
FlashDone_Strict ==
    /\ pc = "loop" /\ cmd = "Flash"
    /\ ~LoopCond
    /\ out' = Append(out, [msg |-> "sent all bytes", n |-> offset]) \o VerificationReport
    /\ ret' = IF verified = Some(TRUE) THEN RetOk
              ELSE [t |-> "Err", kind |-> "Verification"]
    /\ pc' = "done"
    /\ UNCHANGED <<cmd, firmware_len, chunk_size, slot, upgrade, offset, updater,
                   verified, req_frame, resp_frame, wire, sent, answered,
                   sawFlag, sawFalse>>

FlashDone ==
    /\ pc = "loop" /\ cmd = "Flash"
    /\ ~LoopCond
    /\ out' = Append(out, [msg |-> "sent all bytes", n |-> offset]) \o VerificationReport
    /\ ret' = RetOk
    /\ pc' = "done"
    /\ UNCHANGED <<cmd, firmware_len, chunk_size, slot, upgrade, offset, updater,
                   verified, req_frame, resp_frame, wire, sent, answered,
                   sawFlag, sawFalse>>

\* the request each setting command builds, with sequence 42
SettingRequest(c, name) ==
    CASE c = "SettingRead" -> read_setting(Seq42, name)
      [] c = "SettingWriteString" -> write_setting(Seq42, name, "as_bytes")
      [] c = "SettingWriteInt" -> write_setting(Seq42, name, "to_le_bytes")
      [] c = "SettingSave" -> save_setting(Seq42)

SettingSend ==
    /\ pc = "start" /\ cmd \in SettingCmds
    /\ \E name \in Names : Transmit(SettingRequest(cmd, name))
    /\ UNCHANGED <<cmd, firmware_len, chunk_size, slot, upgrade, offset, updater,
                   verified, resp_frame, answered, out, ret, sawFlag, sawFalse>>

\* match ret.data { Ok => println, Err { rc } => eprintln!("rc: {}", rc) }
SettingArm(data) ==
    IF data.t = "Ok"
    THEN IF cmd = "SettingRead" THEN [msg |-> "name=val"] ELSE [msg |-> "success"]
    ELSE [msg |-> "rc", rc |-> data.rc]

\* mutant: a device-reported error makes the command send its request again
SettingRecv_RetryOnErr ==
    /\ pc = "await" /\ cmd \in SettingCmds
    /\ \E i \in 1..Len(wire), rseq \in SeqNums, p \in Payloads :
         LET data == DecodeFor(cmd, p) IN
         IF data = Malformed
         THEN /\ ExchangeError(wire[i], "MalformedFrame")
         ELSE /\ Complete(wire[i], "response")
              /\ resp_frame' = Some([sequence |-> rseq, raw |-> p, data |-> data])
              /\ out' = Append(out, SettingArm(data))
              /\ ret' = IF data.t = "Err" THEN ret ELSE RetOk
              /\ pc' = IF data.t = "Err" THEN "start" ELSE "done"
              /\ UNCHANGED <<cmd, firmware_len, chunk_size, slot, upgrade, offset,
                             updater, verified, req_frame, sent, sawFlag, sawFalse>>

\* the device answers a setting request with payload p; the payload is
\* decoded into the command's result type; a payload of neither shape is
\* a decode error, which leaves main through `?`
SettingRecv ==
    /\ pc = "await" /\ cmd \in SettingCmds
    /\ \E i \in 1..Len(wire), rseq \in SeqNums, p \in Payloads :
         LET data == DecodeFor(cmd, p) IN
         IF data = Malformed
         THEN /\ ExchangeError(wire[i], "MalformedFrame")
         ELSE /\ Complete(wire[i], "response")
              /\ resp_frame' = Some([sequence |-> rseq, raw |-> p, data |-> data])
              /\ out' = Append(out, SettingArm(data))
              /\ ret' = RetOk
              /\ pc' = "done"
              /\ UNCHANGED <<cmd, firmware_len, chunk_size, slot, upgrade, offset,
                             updater, verified, req_frame, sent, sawFlag, sawFalse>>

\* os_management::echo / reset, shell_management::shell_command and
\* application_management::get_state, each called with sequence 42
OtherRequest(c) ==
    CASE c = "OsEcho" ->
           [sequence |-> Seq42, group |-> "Os", command |-> "Echo",
            payload |-> [d |-> "msg"]]
      [] c = "OsReset" ->
           [sequence |-> Seq42, group |-> "Os", command |-> "Reset",
            payload |-> [force |-> FALSE]]
      [] c = "ShellExec" ->
           [sequence |-> Seq42, group |-> "Shell", command |-> "Exec",
            payload |-> [argv |-> "cmd"]]
      [] c = "AppInfo" ->
           [sequence |-> Seq42, group |-> "Application", command |-> "GetState",
            payload |-> <<>>]

OtherSend ==
    /\ pc = "start" /\ cmd \in OtherCmds
    /\ Transmit(OtherRequest(cmd))
    /\ UNCHANGED <<cmd, firmware_len, chunk_size, slot, upgrade, offset, updater,
                   verified, resp_frame, answered, out, ret, sawFlag, sawFalse>>

\* the two shapes of EchoResult, ResetResult, ShellResult, GetImageStateResult
\* as main matches them
OtherResults == {[t |-> "Ok"]} \cup {[t |-> "Err", rc |-> rc] : rc \in ReturnCodes}

\* match ret.data of the Echo, Reset, Exec and Info arms: the Ok arm prints the
\* result, the Err arm prints the return code
OtherArm(data) ==
    IF data.t = "Ok"
    THEN CASE cmd = "OsEcho" -> [msg |-> "r"]
           [] cmd = "OsReset" -> [msg |-> "success"]
           [] cmd = "ShellExec" -> [msg |-> "ret, o"]
           [] cmd = "AppInfo" -> [msg |-> "payload"]
    ELSE [msg |-> "rc", rc |-> data.rc]

\* mutant: a device-reported error ends main with an error, as in flash
OtherRecv_FailOnErr ==
    /\ pc = "await" /\ cmd \in OtherCmds
    /\ \E i \in 1..Len(wire), rseq \in SeqNums, data \in OtherResults :
         /\ Complete(wire[i], "response")
         /\ resp_frame' = Some([sequence |-> rseq, data |-> data])
         /\ out' = Append(out, OtherArm(data))
         /\ ret' = IF data.t = "Err"
                   THEN [t |-> "Err", kind |-> "Mcu", err |-> [rc |-> data.rc]]
                   ELSE RetOk
         /\ pc' = "done"
         /\ UNCHANGED <<cmd, firmware_len, chunk_size, slot, upgrade, offset,
                        updater, verified, req_frame, sent, sawFlag, sawFalse>>

\* the device answers the request of an Echo, Reset, Exec or Info command
OtherRecv ==
    /\ pc = "await" /\ cmd \in OtherCmds
    /\ \E i \in 1..Len(wire), rseq \in SeqNums, data \in OtherResults :
         /\ Complete(wire[i], "response")
         /\ resp_frame' = Some([sequence |-> rseq, data |-> data])
         /\ out' = Append(out, OtherArm(data))
         /\ ret' = RetOk
         /\ pc' = "done"
         /\ UNCHANGED <<cmd, firmware_len, chunk_size, slot, upgrade, offset,
                        updater, verified, req_frame, sent, sawFlag, sawFalse>>

Next ==
    \/ FlashStart
    \/ FlashReadError
    \/ FlashSend
    \/ FlashSlicePanic
    \/ FlashRecv
    \/ FlashDone
    \/ RecvError
    \/ SettingSend
    \/ SettingRecv
    \/ OtherSend
    \/ OtherRecv

Spec == Init /\ [][Next]_vars

TypeOK ==
    /\ pc \in {"start", "loop", "await", "done"}
    /\ offset \in 0..MaxOff
    /\ Len(sent) <= MaxRequests


\* ---------------------------------------------------------------- claims
IsFlash == cmd = "Flash"
LastSent == sent[Len(sent)]
\* the payload of the last successful chunk response (in a flash run every
\* response handed back before the run ends is a success)
LastPayload == resp_frame.v.data.payload
OutMsgs == {out[i].msg : i \in 1..Len(out)}

\* C1: after every successful WriteChunk response the loop's offset and the
\* ImageWriter's offset equal the device-reported offset, the run has not
\* failed, and the next chunk sent carries and starts at exactly that offset.
C1_OffsetIsDeviceReported ==
    /\ (IsFlash /\ pc = "loop" /\ resp_frame.some) =>
          /\ offset = LastPayload.off
          /\ updater.offset = LastPayload.off
          /\ ret = Running
    /\ (IsFlash /\ pc = "await" /\ resp_frame.some) =>
          /\ LastSent.off = LastPayload.off
          /\ LastSent.data.from = LastPayload.off

\* C1 witness: the device reported an offset smaller than the one just
\* requested and the next chunk has been sent from that byte.
C1_Witness ==
    /\ IsFlash /\ pc = "await" /\ Len(sent) >= 3
    /\ resp_frame.some
    /\ LastPayload.off < sent[Len(sent) - 1].off
    /\ LastSent.data.from = LastPayload.off

\* C2 (as stated): the whole-image metadata is in exactly one WriteChunk
\* request of the run, the first.
C2_MetadataExactlyOnce ==
    IsFlash => \A i \in 1..Len(sent) : sent[i].meta.some <=> i = 1

\* C2 (amended): a WriteChunk request carries the whole-image metadata exactly
\* when the chunk it carries starts at byte 0 (its offset field is then 0);
\* the first request always carries it, with the run's slot, length, hash
\* and upgrade flag.
C2_MetadataIffOffsetZero ==
    IsFlash =>
       \A i \in 1..Len(sent) :
          /\ sent[i].meta.some <=> sent[i].data.from = 0
          /\ sent[i].off = sent[i].data.from
          /\ i = 1 => sent[i].meta.some
          /\ sent[i].meta.some =>
                sent[i].meta.v = [image |-> slot, len |-> firmware_len,
                                  sha |-> Some("sha256"), upgrade |-> upgrade]

\* C2 witness: a later request without the metadata, then the device reports
\* offset 0 and the metadata is sent again.
C2_Witness ==
    /\ IsFlash /\ Len(sent) >= 3
    /\ ~sent[2].meta.some
    /\ sent[3].meta.some

\* C3 (as stated): when the loop ends without an error the final offset equals
\* total_length.
C3_FinalOffsetEqualsLength ==
    (IsFlash /\ pc = "done" /\ ret = RetOk) => offset = firmware_len

\* C3 (amended): when the loop ends without an error the final offset is at
\* least total_length; it is the last device-reported offset, or 0 when the
\* image is empty and nothing was sent; and it is the number printed.
C3_FinalOffsetAtLeastLength ==
    (IsFlash /\ pc = "done" /\ ret = RetOk) =>
       /\ offset >= firmware_len
       /\ Len(sent) = 0 => (offset = 0 /\ firmware_len = 0)
       /\ Len(sent) > 0 => offset = LastPayload.off
       /\ \E i \in 1..Len(out) : out[i] = [msg |-> "sent all bytes", n |-> offset]

\* C3 witness: a run of several chunks ended without error.
C3_Witness ==
    /\ IsFlash /\ pc = "done" /\ ret = RetOk
    /\ Len(sent) >= 2
    /\ offset = firmware_len


\* C4: a device-reported error on a WriteChunk exchange ends the run at once:
\* main returns the error carrying the device's return code, the failed
\* request is the last one sent, nothing is outstanding, and the offsets are
\* still the ones the failed request was built from.
C4_DeviceErrorAborts ==
    (IsFlash /\ resp_frame.some /\ resp_frame.v.data.t = "Err") =>
       /\ pc = "done"
       /\ ret = [t |-> "Err", kind |-> "Mcu", err |-> resp_frame.v.data.err]
       /\ wire = <<>>
       /\ Len(answered) = Len(sent)
       /\ answered[Len(answered)] = [id |-> Len(sent), outcome |-> "response"]
       /\ offset = LastSent.off
       /\ updater.offset = LastSent.off

\* C4 witness: a device error answers a chunk sent after some progress.
C4_Witness ==
    /\ IsFlash /\ ret.t = "Err" /\ ret.kind = "Mcu"
    /\ ret.err.rc = -2
    /\ Len(sent) >= 2 /\ offset > 0

\* the offset the device confirmed last
LastConfirmed == IF resp_frame.some THEN LastPayload.off ELSE 0

\* C5: a WriteChunk exchange that fails with a timeout or a transport failure
\* ends the run with that error; the step changes neither offset nor verified,
\* the offset is the last device-confirmed one (0 if none), nothing is
\* outstanding, and no request is sent once main has returned an error.
C5_TransportErrorStops ==
    [][ /\ (IsFlash /\ Len(answered') = Len(answered) + 1
                    /\ answered'[Len(answered')].outcome = "error") =>
              /\ ret'.t = "Err" /\ ret'.kind \in TransportErrors
              /\ pc' = "done"
              /\ wire' = <<>>
              /\ sent' = sent
              /\ offset' = offset
              /\ verified' = verified
              /\ offset' = LastConfirmed
        /\ (IsFlash /\ ret.t = "Err") => sent' = sent ]_vars

\* C5 witness: a timeout after progress had been confirmed.
C5_Witness ==
    /\ IsFlash /\ ret.t = "Err" /\ ret.kind = "Timeout"
    /\ Len(sent) >= 2 /\ offset > 0 /\ verified.some

\* C6: at most one request is outstanding on the transport; a request is
\* outstanding exactly while main awaits its exchange; and the exchanges
\* complete in the order in which the requests were sent.
C6_OneOutstanding ==
    /\ Len(wire) <= 1
    /\ (pc = "await") <=> (wire = <<Len(sent)>>)
    /\ pc # "await" => wire = <<>>
    /\ Len(sent) = Len(answered) + Len(wire)
    /\ \A i \in 1..Len(answered) : answered[i].id = i

\* C6 witness: a third request is outstanding after two completed exchanges.
C6_Witness ==
    /\ Len(answered) >= 2 /\ Len(wire) = 1 /\ pc = "await"

VerificationMsgs == {"Image verified", "Image verification failed!"}

\* C7: if some successful chunk response carried match = false, a run that
\* terminates at total_length prints 'Image verification failed!'; if no
\* response carried the flag, neither verification line is printed.
C7_VerificationFailureFlagged ==
    (IsFlash /\ pc = "done" /\ ret = RetOk) =>
       /\ sawFalse => "Image verification failed!" \in OutMsgs
       /\ ~sawFlag => OutMsgs \cap VerificationMsgs = {}

\* C8: a successful chunk response without the hash-match flag leaves verified
\* unchanged.
C8_VerifiedChangesOnlyWithFlag ==
    [][ (IsFlash /\ pc = "await" /\ pc' = "loop"
                 /\ ~resp_frame'.v.data.payload.match_.some)
           => verified' = verified ]_vars

\* the pure shapes of a setting response
ErrorShaped(p) == DOMAIN p = {"rc"} /\ p["rc"].t = "int"
SuccessShaped(c, p) ==
    IF c = "SettingRead" THEN DOMAIN p = {"val"} /\ p["val"].t = "bytes"
    ELSE DOMAIN p = {}

\* C9: for each setting result type an error-shaped payload (a map carrying
\* rc) decodes to Err with that rc, and a success-shaped payload decodes to Ok.
C9_ShapesDisjoint ==
    (cmd \in SettingCmds /\ resp_frame.some) =>
       LET p == resp_frame.v.raw
           d == resp_frame.v.data
       IN /\ ErrorShaped(p) => d = [t |-> "Err", rc |-> p["rc"].v]
          /\ SuccessShaped(cmd, p) => d.t = "Ok"

\* C10: a response frame handed back by an exchange carries the sequence
\* number of the request just sent.
C10_ResponseSequenceMatches ==
    (/\ pc \in {"loop", "done"}
     /\ Len(answered) > 0
     /\ answered[Len(answered)].outcome = "response") =>
        resp_frame.v.sequence = req_frame.v.sequence


SingleExchangeCmds == SettingCmds \cup OtherCmds

\* C11: a single-exchange command sends one request and makes one receive
\* attempt: never more than one request is sent, and when main has returned,
\* after a response (success or device error), a timeout or a transport
\* failure, exactly one request was sent and exactly one exchange completed.
C11_ExactlyOneExchange ==
    cmd \in SingleExchangeCmds =>
       /\ Len(sent) <= 1
       /\ Len(answered) <= Len(sent)
       /\ pc = "done" => (Len(sent) = 1 /\ Len(answered) = 1 /\ wire = <<>>)
       /\ ret # Running <=> pc = "done"

\* C11 witness: setting read answered by the device error rc = -2; main has
\* returned after its one exchange.
C11_Witness ==
    /\ cmd = "SettingRead" /\ pc = "done"
    /\ resp_frame.some /\ resp_frame.v.data = [t |-> "Err", rc |-> -2]
    /\ Len(sent) = 1 /\ Len(answered) = 1


\* C12: the request a setting command sends is in group SettingManagement,
\* carries the sequence number the caller passed (42), and is: for read,
\* operation ReadRequest, command id 0, payload {name}; for write, operation
\* WriteRequest, command id 0, payload {name, val}; for save, operation
\* WriteRequest, command id 3, empty payload.  The builders return any
\* sequence number unchanged.
C12_SettingRequestEnvelopes ==
    (cmd \in SettingCmds /\ req_frame.some) =>
       LET f == req_frame.v IN
       /\ f.group = "SettingManagement"
       /\ f.sequence = Seq42
       /\ cmd = "SettingRead" =>
             /\ f.op = "ReadRequest" /\ f.command_id = 0
             /\ \E n \in Names : f.payload = [name |-> n]
       /\ cmd \in {"SettingWriteString", "SettingWriteInt"} =>
             /\ f.op = "WriteRequest" /\ f.command_id = 0
             /\ DOMAIN f.payload = {"name", "val"}
             /\ f.payload.name \in Names
             /\ f.payload.val = IF cmd = "SettingWriteString" THEN "as_bytes"
                                ELSE "to_le_bytes"
       /\ cmd = "SettingSave" =>
             /\ f.op = "WriteRequest" /\ f.command_id = 3
             /\ f.payload = <<>>
       /\ \A q \in SeqNums, n \in Names :
             /\ read_setting(q, n).sequence = q
             /\ write_setting(q, n, f.payload).sequence = q
             /\ save_setting(q).sequence = q

\* C12 witness: the save request is on the wire.
C12_Witness ==
    /\ cmd = "SettingSave" /\ pc = "await"
    /\ req_frame.some /\ req_frame.v.command_id = SaveCommandId


\* the device has confirmed every chunk so far with requested offset + chunk
\* length: each request starts where the chunk before it ended, and the
\* last successful response reported the end of the last chunk
DeviceConfirmsChunks ==
    /\ \A i \in 1..(Len(sent) - 1) : sent[i + 1].off = sent[i].data.to
    /\ (/\ Len(sent) > 0 /\ Len(answered) = Len(sent)
        /\ answered[Len(answered)].outcome = "response"
        /\ resp_frame.v.data.t = "Ok")
          => LastPayload.off = LastSent.data.to

CeilDiv(a, b) == (a + b - 1) \div b

\* C13: with chunk size c >= 1 and a device that confirms every chunk with
\* requested offset + chunk length, request k is at offset (k-1)*c, a run that
\* ends has sent exactly ceil(L/c) requests and ends with offset L, and the
\* loop is left as soon as ceil(L/c) chunks are confirmed.
C13_ChunkSchedule ==
    (IsFlash /\ chunk_size >= 1 /\ DeviceConfirmsChunks) =>
       /\ \A k \in 1..Len(sent) : sent[k].off = (k - 1) * chunk_size
       /\ \A k \in 1..Len(sent) : sent[k].data.from = sent[k].off
       /\ Len(sent) <= CeilDiv(firmware_len, chunk_size)
       /\ (pc = "done" /\ ret = RetOk) =>
             /\ Len(sent) = CeilDiv(firmware_len, chunk_size)
             /\ offset = firmware_len
       /\ (pc = "loop" /\ Len(sent) = CeilDiv(firmware_len, chunk_size)) => ~LoopCond
       /\ ret.t # "Panic"

\* C13 witness: image length 3, chunk size 2: requests at 0 and 2, the device
\* confirmed 2 and 3, and the run ended with offset 3.
C13_Witness ==
    /\ IsFlash /\ pc = "done" /\ ret = RetOk
    /\ firmware_len = 3 /\ chunk_size = 2
    /\ DeviceConfirmsChunks
    /\ Len(sent) = 2 /\ sent[1].off = 0 /\ sent[2].off = 2
    /\ offset = 3


\* C14: once the offset has reached total_length the next step of main ends
\* the run as a success, whatever verified holds: after 'sent all bytes' a
\* verified value of false adds only the line 'Image verification failed!',
\* no verification result adds nothing, and main returns Ok(()).
C14_UnverifiedIsSuccess ==
    [][ (IsFlash /\ pc = "loop" /\ offset >= firmware_len) =>
           /\ pc' = "done"
           /\ ret' = RetOk
           /\ out' = Append(out, [msg |-> "sent all bytes", n |-> offset]) \o
                     (IF verified = Some(TRUE) THEN <<[msg |-> "Image verified"]>>
                      ELSE IF verified = Some(FALSE)
                           THEN <<[msg |-> "Image verification failed!"]>>
                           ELSE <<>>) ]_vars

\* C14 witness: the run ended as a success although the last verification
\* result was false.
C14_Witness ==
    /\ IsFlash /\ pc = "done" /\ ret = RetOk
    /\ verified = Some(FALSE)
    /\ "Image verification failed!" \in OutMsgs
    /\ Len(sent) >= 1


\* every chunk sent so far lies inside the image and has the clamped length
SentChunksInside ==
    \A i \in 1..Len(sent) :
       LET from == sent[i].data.from
           to   == sent[i].data.to
       IN /\ 0 <= from /\ from < firmware_len
          /\ to - from = Min(chunk_size, firmware_len - from)
          /\ to <= firmware_len

\* C15: every chunk sent by the upload loop lies inside the image: its start
\* is in 0..total_length-1, its length is min(chunk_size, total_length - start)
\* and it ends at or before total_length; and slicing the image never goes
\* out of range, for every sequence of device-reported offsets.
C15_ChunksInsideImage ==
    IsFlash => (SentChunksInside /\ ret.t # "Panic")


\* C16: whenever the loop is about to build a WriteChunk request the
\* ImageWriter's offset equals the loop's offset, and in every request built
\* the offset field equals the index in the image at which its data chunk
\* starts.
C16_WriterOffsetIsLoopOffset ==
    IsFlash =>
       /\ pc = "loop" => updater.offset = offset
       /\ \A i \in 1..Len(sent) : sent[i].off = sent[i].data.from

\* C16 witness: a third request built after the device first advanced and
\* then moved back to a nonzero offset.
C16_Witness ==
    /\ IsFlash /\ pc = "await" /\ Len(sent) = 3
    /\ sent[3].off < sent[2].off /\ sent[3].off > 0
    /\ sent[3].data.from = sent[3].off


====
